---------------------------- MODULE Spec2Model ----------------------------
(***************************************************************************)
(* Model of backend/mqtt_service.py: the MQTT bridge's connection          *)
(* lifecycle (init_mqtt_client, cleanup_mqtt_client, the paho callbacks),  *)
(* the publish relay (publish_message), the topic resolver                 *)
(* (get_publish_topic) and the HTTP routes that drive them.                *)
(*                                                                         *)
(* Text is modelled as a sequence of one-character strings wherever the    *)
(* code looks inside it (str.replace on the topic template); messages the  *)
(* code builds with f-strings are records of their fixed text and the      *)
(* values formatted into them.                                             *)
(***************************************************************************)
EXTENDS Integers, Sequences, FiniteSets, TLC

(***************************************************************************)
(* Bounds of the model.                                                    *)
(***************************************************************************)
\* mqtt.Client objects constructed during one run
MaxClients == 2

(***************************************************************************)
(* Program constants.                                                      *)
(***************************************************************************)
\* qos=1 in publish_message
QOS == 1
\* mqtt.MQTT_ERR_SUCCESS
MQTT_ERR_SUCCESS == 0

\* Python's None where the code holds a message or a response field
None == [text |-> "None"]

\* Python's None where the code holds a string (active_client_id, clientId);
\* no text is this sequence, every element of a text being one character
NoneStr == <<"None">>

\* the literal token of the topic template
TOKEN == <<"c", "l", "i", "e", "n", "t", "_", "i", "d">>

\* MQTT_CONFIG["base_topic"]: the default "/client_id/api" and the other
\* templates MQTT_BASE_TOPIC is drawn from (no token, two tokens)
DefaultBaseTopic == <<"/">> \o TOKEN \o <<"/", "a", "p", "i">>

BaseTopics ==
    { DefaultBaseTopic,
      <<"/", "a", "p", "i">>,
      <<"/">> \o TOKEN \o <<"/">> \o TOKEN }

\* client ids a set-client request carries: "t42", and one that is the
\* token itself
ClientIds == { <<"t", "4", "2">>, TOKEN }

\* the CERTIFICATES dict, in insertion order
CERTIFICATES == <<"client_key", "client_cert", "ca_cert">>

CertTypes == { CERTIFICATES[i] : i \in 1..Len(CERTIFICATES) }

\* what os.path.exists / os.access find at a certificate path
FileStates == {"ok", "absent", "unreadable"}

\* the certificate directories a connect request finds: every file in
\* place, one file absent or unreadable, several at once
AllFiles(st) == [c \in CertTypes |-> st]

CertDirs ==
    { f \in [CertTypes -> FileStates] :
          Cardinality({ c \in CertTypes : f[c] # "ok" }) <= 1 }
    \cup { AllFiles("absent"),
           [AllFiles("ok") EXCEPT !["client_key"] = "absent",
                                  !["client_cert"] = "unreadable"] }

\* result codes a CONNACK carries to on_connect
ConnackCodes == {0, 1, 5}

\* immediate outcomes of mqtt_client.publish: a return code or an exception
PublishSucceeds == [raise |-> FALSE, rc |-> 0, exc |-> ""]

PublishOutcomes ==
    { PublishSucceeds,
      [raise |-> FALSE, rc |-> 4, exc |-> ""],
      [raise |-> TRUE, rc |-> 0, exc |-> "Invalid topic."] }

(***************************************************************************)
(* str.replace(old, new): every non-overlapping occurrence of old in s,    *)
(* found scanning left to right, is replaced by new.                       *)
(***************************************************************************)
StartsWith(s, old) ==
    /\ Len(old) <= Len(s)
    /\ SubSeq(s, 1, Len(old)) = old

\* str.replace(old, new, 1): only the leftmost occurrence is replaced
str_replace_first(s, old, new) ==
    IF \E i \in 1..Len(s) : StartsWith(SubSeq(s, i, Len(s)), old)
    THEN LET i == CHOOSE k \in 1..Len(s) :
                      /\ StartsWith(SubSeq(s, k, Len(s)), old)
                      /\ \A j \in 1..(k - 1) :
                             ~StartsWith(SubSeq(s, j, Len(s)), old)
         IN  SubSeq(s, 1, i - 1) \o new \o SubSeq(s, i + Len(old), Len(s))
    ELSE s

RECURSIVE str_replace(_, _, _)
str_replace(s, old, new) ==
    IF s = <<>> THEN <<>>
    ELSE IF StartsWith(s, old)
         THEN new \o str_replace(SubSeq(s, Len(old) + 1, Len(s)), old, new)
         ELSE <<Head(s)>> \o str_replace(Tail(s), old, new)

\* get_publish_topic(), reading MQTT_CONFIG["base_topic"] and
\* active_client_id; "not active_client_id" is true of None and of ""
get_publish_topic(base, cid) ==
    IF cid = NoneStr \/ cid = <<>> THEN base
    ELSE str_replace(base, TOKEN, cid)

(***************************************************************************)
(* json.dumps on the payloads the relay carries: a string, an integer, or  *)
(* an object of one key.  The text is a sequence of lexical tokens; the    *)
(* default separators are ", " and ": ".                                   *)
(***************************************************************************)
JStr(s) == [t |-> "str", s |-> s, n |-> 0]
JInt(n) == [t |-> "int", s |-> "", n |-> n]
JObj(k, v) == [t |-> "obj", k |-> k, val |-> v]

json_dumps(p) ==
    IF p.t = "str" THEN <<"\"", p.s, "\"">>
    ELSE IF p.t = "int" THEN <<ToString(p.n)>>
    ELSE <<"{", "\"", p.k, "\"", ":", " ">>
         \o (IF p.val.t = "str" THEN <<"\"", p.val.s, "\"">>
             ELSE <<ToString(p.val.n)>>)
         \o <<"}">>

\* bodies of POST /publish requests: {"a": 1}, {"x": "y"}
Payloads == { JObj("a", JInt(1)), JObj("x", JStr("y")) }

(***************************************************************************)
(* Messages the code formats.                                              *)
(***************************************************************************)
NotConnectedMsg == [text |-> "MQTT client not connected"]

ConnectRcMsg(rc) ==
    [text |-> "Failed to connect to MQTT broker with result code ", rc |-> rc]

\* the message built from missing_certs[0] alone
MissingCertsMsgFirstOnly(missing) ==
    [text |-> "Missing or unreadable certificates: ",
     items |-> <<missing[1]>>]

\* ', '.join(missing_certs) keeps the entries and their order
MissingCertsMsg(missing) ==
    [text |-> "Missing or unreadable certificates: ", items |-> missing]

InitExcMsg(e) == [text |-> "Failed to initialize MQTT client: ", exc |-> e]

\* the message with the return code left out of it
PublishRcMsgNoCode(rc) == [text |-> "Failed to publish message: ", rc |-> 0]

PublishRcMsg(rc) == [text |-> "Failed to publish message: ", rc |-> rc]

PublishExcMsg(e) == [text |-> "Error publishing message: ", exc |-> e]

CleanupExcMsg(e) == [text |-> "Error cleaning up MQTT client: ", exc |-> e]

(***************************************************************************)
(* State: the module's globals, the client objects of the MQTT library,    *)
(* and the outcome of the last operation.                                  *)
(***************************************************************************)
VARIABLES
    CONNECTION_STATUS,  \* [status, error]
    mqtt_client,        \* index into clients of the referenced object, 0 for None
    mqtt_connected,     \* the flag publish_message and /status read
    active_client_id,   \* NoneStr or a client id
    base_topic,         \* MQTT_CONFIG["base_topic"]
    clients,            \* every mqtt.Client constructed: [loop]
    last,               \* the last operation: its input, result and library calls
    publishing          \* the /publish request inside publish_message, if any

vars == <<CONNECTION_STATUS, mqtt_client, mqtt_connected, active_client_id,
          base_topic, clients, last, publishing>>

\* no request is inside publish_message
Idle == [at |-> "idle"]

\* a client object's network-loop thread is running: it delivers callbacks
LoopRunning(h) == clients[h].loop

\* a client object is live: its loop thread runs, holding its socket
Live(h) == clients[h].loop

NoPublish == [called |-> FALSE]

\* the module's globals once it is loaded
Globals ==
    /\ CONNECTION_STATUS = [status |-> "disconnected", error |-> None]
    /\ mqtt_client = 0
    /\ mqtt_connected = FALSE
    /\ active_client_id = NoneStr
    /\ clients = <<>>
    /\ last = [op |-> "load", arg |-> None, ret |-> None, code |-> 0,
               pm |-> NoPublish, calls |-> <<>>]
    /\ publishing = Idle

\* MQTT_BASE_TOPIC is not set: the default template
Init ==
    /\ Globals
    /\ base_topic = DefaultBaseTopic

\* MQTT_BASE_TOPIC may be set to any of the templates
InitAnyTopic ==
    /\ Globals
    /\ base_topic \in BaseTopics

(***************************************************************************)
(* check_certificates(): one entry per certificate that does not exist or  *)
(* is not readable, in the order of CERTIFICATES.                          *)
(***************************************************************************)
CertEntry(files, c) ==
    [cert_type |-> c, not_readable |-> (files[c] = "unreadable")]

RECURSIVE check_certificates_from(_, _)
check_certificates_from(files, i) ==
    IF i > Len(CERTIFICATES) THEN <<>>
    ELSE (IF files[CERTIFICATES[i]] = "ok" THEN <<>>
          ELSE <<CertEntry(files, CERTIFICATES[i])>>)
         \o check_certificates_from(files, i + 1)

check_certificates(files) == check_certificates_from(files, 1)

(***************************************************************************)
(* publish_message(payload): its return pair and the publish it hands to   *)
(* the library, from the globals it reads and the library's outcome.       *)
(***************************************************************************)
PublishGate(client, connected) == client # 0 /\ connected

\* the publish with the qos argument left out (the library's default, 0)
PublishCallDefaultQos(client, topic, payload, out) ==
    [fn |-> "publish", client |-> client, topic |-> topic,
     body |-> json_dumps(payload), qos |-> 0, raised |-> out.raise,
     result |-> out]

PublishCall(client, topic, payload, out) ==
    [fn |-> "publish", client |-> client, topic |-> topic,
     body |-> json_dumps(payload), qos |-> QOS, raised |-> out.raise,
     result |-> out]

\* str(e) of the AttributeError that "mqtt_client.publish" raises when
\* mqtt_client is None
NoHandleExc == "'NoneType' object has no attribute 'publish'"

\* the try block of publish_message, entered past the gate; client is what
\* mqtt_client holds when "mqtt_client.publish" is evaluated
publish_try(client, base, cid, payload, out) ==
    IF client = 0
    THEN [called |-> TRUE, ok |-> FALSE, msg |-> PublishExcMsg(NoHandleExc),
          calls |-> <<>>]
    ELSE LET call == PublishCall(client, get_publish_topic(base, cid), payload, out)
         IN  IF out.raise
             THEN [called |-> TRUE, ok |-> FALSE, msg |-> PublishExcMsg(out.exc),
                   calls |-> <<call>>]
             ELSE IF out.rc = MQTT_ERR_SUCCESS
             THEN [called |-> TRUE, ok |-> TRUE, msg |-> None, calls |-> <<call>>]
             ELSE [called |-> TRUE, ok |-> FALSE, msg |-> PublishRcMsg(out.rc),
                   calls |-> <<call>>]

\* publish_message run without interruption
publish_message(client, connected, base, cid, payload, out) ==
    IF ~PublishGate(client, connected)
    THEN [called |-> TRUE, ok |-> FALSE, msg |-> NotConnectedMsg, calls |-> <<>>]
    ELSE publish_try(client, base, cid, payload, out)

(***************************************************************************)
(* Callbacks, delivered on a client object's loop thread.                  *)
(***************************************************************************)
Op(op, arg, ret, code, pm, calls) ==
    [op |-> op, arg |-> arg, ret |-> ret, code |-> code, pm |-> pm,
     calls |-> calls]

\* what CONNECTION_STATUS["error"] holds after on_disconnect
OnDisconnectError(err) == err

\* the else branch of on_connect without "mqtt_connected = False"
OnConnectRefusedKeepsFlag(rc) ==
    [connected |-> mqtt_connected,
     cs |-> [status |-> "error", error |-> ConnectRcMsg(rc)]]

\* the else branch of on_connect: the flag and CONNECTION_STATUS it leaves
OnConnectRefused(rc) ==
    [connected |-> FALSE,
     cs |-> [status |-> "error", error |-> ConnectRcMsg(rc)]]

\* the if branch of on_connect with publish_message("Connected") called
\* before "mqtt_connected = True": seen is the flag publish_message reads
OnConnectAcceptedPublishesFirst ==
    [connected |-> TRUE,
     cs |-> [status |-> "connected", error |-> None],
     seen |-> mqtt_connected]

\* the if branch of on_connect: the flag and CONNECTION_STATUS it sets, and
\* the flag publish_message("Connected") reads after them
OnConnectAccepted ==
    [connected |-> TRUE,
     cs |-> [status |-> "connected", error |-> None],
     seen |-> TRUE]

\* the pair publish_message returned
Returned(pm) == [called |-> TRUE, ok |-> pm.ok, msg |-> pm.msg]

\* on_connect(client, userdata, flags, rc); out is the outcome of the
\* publish the handler's publish_message("Connected") may hand to the library
on_connect(h, rc, out) ==
    /\ h \in 1..Len(clients)
    /\ LoopRunning(h)
    /\ (rc # 0 \/ ~PublishGate(mqtt_client, OnConnectAccepted.seen))
           => out = PublishSucceeds
    /\ IF rc = 0
       THEN LET pm == publish_message(mqtt_client, OnConnectAccepted.seen,
                                      base_topic, active_client_id,
                                      JStr("Connected"), out)
            IN  /\ mqtt_connected' = OnConnectAccepted.connected
                /\ CONNECTION_STATUS' = OnConnectAccepted.cs
                /\ last' = Op("on_connect", [client |-> h, rc |-> rc], None, 0,
                              Returned(pm), pm.calls)
       ELSE /\ mqtt_connected' = OnConnectRefused(rc).connected
            /\ CONNECTION_STATUS' = OnConnectRefused(rc).cs
            /\ last' = Op("on_connect", [client |-> h, rc |-> rc], None, 0,
                          NoPublish, <<>>)
    /\ UNCHANGED <<mqtt_client, active_client_id, base_topic, clients,
                   publishing>>

\* on_disconnect(client, userdata, rc); rc is only logged
on_disconnect(h) ==
    /\ h \in 1..Len(clients)
    /\ LoopRunning(h)
    /\ mqtt_connected' = FALSE
    /\ CONNECTION_STATUS' =
           [status |-> "disconnected",
            error |-> OnDisconnectError(CONNECTION_STATUS.error)]
    /\ last' = Op("on_disconnect", [client |-> h], None, 0, NoPublish, <<>>)
    /\ UNCHANGED <<mqtt_client, active_client_id, base_topic, clients,
                   publishing>>

\* on_publish(client, userdata, mid): logs
on_publish(h) ==
    /\ h \in 1..Len(clients)
    /\ LoopRunning(h)
    /\ last' = Op("on_publish", [client |-> h], None, 0, NoPublish, <<>>)
    /\ UNCHANGED <<CONNECTION_STATUS, mqtt_client, mqtt_connected,
                   active_client_id, base_topic, clients, publishing>>

(***************************************************************************)
(* init_mqtt_client().  fault names the library call that raises, if any.  *)
(***************************************************************************)
InitFaults == {"none", "Client", "tls_set", "connect", "loop_start"}

InitExcText(fault) ==
    CASE fault = "Client" -> "Invalid client id"
      [] fault = "tls_set" -> "PEM lib"
      [] fault = "connect" -> "Connection refused"
      [] fault = "loop_start" -> "can't start new thread"
      [] OTHER -> ""

LibCall(fn, h, raised) == [fn |-> fn, client |-> h, raised |-> raised]

\* the library calls init_mqtt_client makes on the new object h, up to and
\* including the one that raises
InitCalls(h, fault) ==
    <<LibCall("Client", h, fault = "Client")>>
    \o (IF fault = "Client" THEN <<>>
        ELSE <<LibCall("tls_set", h, fault = "tls_set")>>
             \o (IF fault = "tls_set" THEN <<>>
                 ELSE <<LibCall("connect", h, fault = "connect")>>
                      \o (IF fault = "connect" THEN <<>>
                          ELSE <<LibCall("loop_start", h, fault = "loop_start")>>)))

\* the new object after those calls: loop_start starts its thread
InitClient(fault) == [loop |-> (fault = "none")]

\* the except branch of init_mqtt_client without "mqtt_connected = False"
InitConnectedFlagKept(connected, raised) == connected

\* the value of mqtt_connected when init_mqtt_client returns
InitConnectedFlag(connected, raised) == IF raised THEN FALSE ELSE connected

\* init_mqtt_client taking the connection for made when connect() returns
InitStartedAsConnected == [status |-> "connected", error |-> None]

\* CONNECTION_STATUS when init_mqtt_client returns True: the connect result
\* arrives later, in on_connect
InitStarted == [status |-> "connecting", error |-> None]

\* init_mqtt_client(): what it returns, the globals it leaves, the client
\* objects afterwards and the library calls it made
init_mqtt_client(files, fault) ==
    LET missing_certs == check_certificates(files)
        h == Len(clients) + 1
    IN  IF missing_certs # <<>>
        THEN [success |-> FALSE,
              cs |-> [status |-> "error",
                      error |-> MissingCertsMsg(missing_certs)],
              client |-> mqtt_client,
              connected |-> mqtt_connected,
              clients |-> clients,
              calls |-> <<>>]
        ELSE [success |-> (fault = "none"),
              cs |-> IF fault = "none"
                     THEN InitStarted
                     ELSE [status |-> "error",
                           error |-> InitExcMsg(InitExcText(fault))],
              client |-> IF fault = "Client" THEN mqtt_client ELSE h,
              connected |-> InitConnectedFlag(mqtt_connected, fault # "none"),
              clients |-> IF fault = "Client" THEN clients
                          ELSE Append(clients, InitClient(fault)),
              calls |-> InitCalls(h, fault)]

(***************************************************************************)
(* cleanup_mqtt_client().  fault names the library call that raises.       *)
(***************************************************************************)
CleanupFaults == {"none", "loop_stop", "disconnect"}

CleanupExcText(fault) ==
    CASE fault = "loop_stop" -> "cannot join current thread"
      [] fault = "disconnect" -> "Broken pipe"
      [] OTHER -> ""

CleanupCalls(h, fault) ==
    <<LibCall("loop_stop", h, fault = "loop_stop")>>
    \o (IF fault = "loop_stop" THEN <<>>
        ELSE <<LibCall("disconnect", h, fault = "disconnect")>>)

\* the referenced object after those calls: loop_stop ends its thread
CleanupClient(c, fault) ==
    [loop |-> IF fault = "loop_stop" THEN c.loop ELSE FALSE]

\* cleanup_mqtt_client without its early return
NothingToCleanNever(client) == FALSE

\* the early return of cleanup_mqtt_client
NothingToClean(client) == client = 0

cleanup_mqtt_client(fault) ==
    IF NothingToClean(mqtt_client)
    THEN [success |-> TRUE,
          cs |-> CONNECTION_STATUS,
          client |-> mqtt_client,
          connected |-> mqtt_connected,
          clients |-> clients,
          calls |-> <<>>]
    ELSE IF fault = "none"
    THEN [success |-> TRUE,
          cs |-> [status |-> "disconnected", error |-> None],
          client |-> 0,
          connected |-> FALSE,
          clients |-> [clients EXCEPT
                          ![mqtt_client] = CleanupClient(@, fault)],
          calls |-> CleanupCalls(mqtt_client, fault)]
    ELSE [success |-> FALSE,
          cs |-> [CONNECTION_STATUS EXCEPT
                     !.error = CleanupExcMsg(CleanupExcText(fault))],
          client |-> mqtt_client,
          connected |-> mqtt_connected,
          clients |-> [clients EXCEPT
                          ![mqtt_client] = CleanupClient(@, fault)],
          calls |-> CleanupCalls(mqtt_client, fault)]

(***************************************************************************)
(* set_active_client_id(client_id)                                         *)
(***************************************************************************)
\* the id kept once it has been set
set_active_client_id_once(client_id) ==
    IF active_client_id = NoneStr THEN client_id ELSE active_client_id

set_active_client_id(client_id) == client_id

(***************************************************************************)
(* The HTTP routes.                                                        *)
(***************************************************************************)
\* POST /connect, and the call of init_mqtt_client() at start-up; files is
\* what the certificate paths hold on disk when the request runs
connect(files, fault) ==
    /\ files \in CertDirs
    /\ fault \in InitFaults
    /\ IF check_certificates(files) # <<>>
       THEN fault = "none"
       ELSE Len(clients) < MaxClients
    /\ LET r == init_mqtt_client(files, fault)
       IN  /\ CONNECTION_STATUS' = r.cs
           /\ mqtt_client' = r.client
           /\ mqtt_connected' = r.connected
           /\ clients' = r.clients
           /\ last' = Op("connect", files,
                         [success |-> r.success, status |-> r.cs.status,
                          error |-> r.cs.error],
                         200, NoPublish, r.calls)
    /\ UNCHANGED <<active_client_id, base_topic, publishing>>

\* POST /disconnect
disconnect(fault) ==
    /\ fault \in CleanupFaults
    /\ NothingToClean(mqtt_client) => fault = "none"
    /\ LET r == cleanup_mqtt_client(fault)
       IN  /\ CONNECTION_STATUS' = r.cs
           /\ mqtt_client' = r.client
           /\ mqtt_connected' = r.connected
           /\ clients' = r.clients
           /\ last' = Op("disconnect", None,
                         [success |-> r.success, status |-> r.cs.status,
                          error |-> r.cs.error],
                         200, NoPublish, r.calls)
    /\ UNCHANGED <<active_client_id, base_topic, publishing>>

\* bodies of POST /set-client: no JSON, {}, {"clientId": ""}, {"clientId": c}
SetClientRequests ==
    { [body |-> "none", clientId |-> NoneStr],
      [body |-> "empty", clientId |-> NoneStr],
      [body |-> "obj", clientId |-> <<>>] }
    \cup { [body |-> "obj", clientId |-> c] : c \in ClientIds }

\* "not data" alone
ClientIdMissingBody(data) == data.body \in {"none", "empty"}

\* "not data or not data.get('clientId')"
ClientIdMissing(data) ==
    \/ data.body \in {"none", "empty"}
    \/ data.clientId = NoneStr
    \/ data.clientId = <<>>

\* POST /set-client
set_client(data) ==
    /\ data \in SetClientRequests
    /\ IF ClientIdMissing(data)
       THEN /\ last' = Op("set_client", data,
                          [success |-> FALSE,
                           error |-> [text |-> "Client ID is required"]],
                          400, NoPublish, <<>>)
            /\ UNCHANGED active_client_id
       ELSE /\ active_client_id' = set_active_client_id(data.clientId)
            /\ last' = Op("set_client", data,
                          [success |-> TRUE,
                           active_client_id |-> active_client_id'],
                          200, NoPublish, <<>>)
    /\ UNCHANGED <<CONNECTION_STATUS, mqtt_client, mqtt_connected, base_topic,
                   clients, publishing>>

\* bodies of POST /publish: no JSON, {}, or a payload
PublishRequests ==
    { [body |-> "none", payload |-> None], [body |-> "empty", payload |-> None] }
    \cup { [body |-> "obj", payload |-> p] : p \in Payloads }

\* POST /publish; out is the outcome of the library's publish, if it is called
publish(data, out) ==
    /\ data \in PublishRequests
    /\ out \in PublishOutcomes
    /\ (data.body # "obj" \/ ~PublishGate(mqtt_client, mqtt_connected))
           => out = PublishSucceeds
    /\ IF data.body # "obj"
       THEN last' = Op("publish", data,
                       [success |-> FALSE,
                        error |-> [text |-> "Payload is required"]],
                       400, NoPublish, <<>>)
       ELSE LET pm == publish_message(mqtt_client, mqtt_connected, base_topic,
                                      active_client_id, data.payload, out)
            IN  last' = Op("publish", data,
                           [success |-> pm.ok, error |-> pm.msg],
                           200, Returned(pm), pm.calls)
    /\ UNCHANGED <<CONNECTION_STATUS, mqtt_client, mqtt_connected,
                   active_client_id, base_topic, clients, publishing>>

\* GET /status
get_status ==
    /\ last' = Op("status", None,
                  [status |-> CONNECTION_STATUS.status,
                   error |-> CONNECTION_STATUS.error,
                   connected |-> mqtt_connected,
                   active_client_id |-> active_client_id,
                   publish_topic |->
                       IF active_client_id = NoneStr \/ active_client_id = <<>>
                       THEN NoneStr
                       ELSE get_publish_topic(base_topic, active_client_id),
                   base_topic |-> base_topic],
                  200, NoPublish, <<>>)
    /\ UNCHANGED <<CONNECTION_STATUS, mqtt_client, mqtt_connected,
                   active_client_id, base_topic, clients, publishing>>

(***************************************************************************)
(* POST /publish served on its own thread: between the gate of             *)
(* publish_message (line 158) and the try block (line 163) the other       *)
(* requests and the callbacks of the loop thread may run.                  *)
(***************************************************************************)
\* the object a local variable bound at the gate would still hold
HandleAtCheck(checked, current) == checked

\* the object "mqtt_client.publish" finds: the global is read again
HandleAtUse(checked, current) == current

\* the request up to and including the gate of publish_message
publish_check(data) ==
    /\ publishing = Idle
    /\ data \in PublishRequests
    /\ IF data.body # "obj"
       THEN /\ last' = Op("publish", data,
                          [success |-> FALSE,
                           error |-> [text |-> "Payload is required"]],
                          400, NoPublish, <<>>)
            /\ UNCHANGED publishing
       ELSE IF ~PublishGate(mqtt_client, mqtt_connected)
       THEN /\ last' = Op("publish", data,
                          [success |-> FALSE, error |-> NotConnectedMsg],
                          200,
                          [called |-> TRUE, ok |-> FALSE, msg |-> NotConnectedMsg],
                          <<>>)
            /\ UNCHANGED publishing
       ELSE /\ publishing' = [at |-> "try", data |-> data,
                              client |-> mqtt_client]
            /\ UNCHANGED last
    /\ UNCHANGED <<CONNECTION_STATUS, mqtt_client, mqtt_connected,
                   active_client_id, base_topic, clients>>

\* the try block of publish_message and the response of the route
publish_use(out) ==
    /\ publishing # Idle
    /\ out \in PublishOutcomes
    /\ HandleAtUse(publishing.client, mqtt_client) = 0 => out = PublishSucceeds
    /\ LET pm == publish_try(HandleAtUse(publishing.client, mqtt_client),
                             base_topic, active_client_id,
                             publishing.data.payload, out)
       IN  last' = Op("publish", publishing.data,
                      [success |-> pm.ok, error |-> pm.msg],
                      200, Returned(pm), pm.calls)
    /\ publishing' = Idle
    /\ UNCHANGED <<CONNECTION_STATUS, mqtt_client, mqtt_connected,
                   active_client_id, base_topic, clients>>

Next ==
    \/ \E files \in CertDirs, fault \in InitFaults :
          connect(files, fault)
    \/ \E fault \in CleanupFaults : disconnect(fault)
    \/ \E data \in SetClientRequests : set_client(data)
    \/ \E data \in PublishRequests, out \in PublishOutcomes : publish(data, out)
    \/ get_status
    \/ \E h \in 1..MaxClients, rc \in ConnackCodes, out \in PublishOutcomes :
          on_connect(h, rc, out)
    \/ \E h \in 1..MaxClients : on_disconnect(h)
    \/ \E h \in 1..MaxClients : on_publish(h)

Spec == Init /\ [][Next]_vars

SpecAnyTopic == InitAnyTopic /\ [][Next]_vars

\* the inputs of the requests and callbacks that run beside a publish
\* request: the certificates all in place or all absent, a raise in
\* mqtt.Client or in loop_start, one client id, one payload, a CONNACK
\* accepted or refused
ConcurrentCertDirs == { AllFiles("ok"), AllFiles("absent") }

ConcurrentInitFaults == {"none", "Client", "loop_start"}

ConcurrentSetClientRequests ==
    { [body |-> "obj", clientId |-> <<>>],
      [body |-> "obj", clientId |-> <<"t", "4", "2">>] }

ConcurrentPublishRequests ==
    { [body |-> "empty", payload |-> None],
      [body |-> "obj", payload |-> JObj("a", JInt(1))] }

ConcurrentConnackCodes == {0, 5}

\* what runs while a publish request is between its gate and its try block:
\* the other routes and the callbacks
NextConcurrent ==
    \/ \E files \in ConcurrentCertDirs, fault \in ConcurrentInitFaults :
          connect(files, fault)
    \/ \E fault \in CleanupFaults : disconnect(fault)
    \/ \E data \in ConcurrentSetClientRequests : set_client(data)
    \/ \E data \in ConcurrentPublishRequests : publish_check(data)
    \/ \E out \in PublishOutcomes : publish_use(out)
    \/ get_status
    \/ \E h \in 1..MaxClients, rc \in ConcurrentConnackCodes,
          out \in PublishOutcomes :
          on_connect(h, rc, out)
    \/ \E h \in 1..MaxClients : on_disconnect(h)
    \/ \E h \in 1..MaxClients : on_publish(h)

SpecConcurrent == Init /\ [][NextConcurrent]_vars

\* the loop thread of a client object delivers a connect result or a
\* disconnect
CallbackDelivery ==
    \/ \E h \in 1..MaxClients, rc \in ConnackCodes, out \in PublishOutcomes :
          on_connect(h, rc, out)
    \/ \E h \in 1..MaxClients : on_disconnect(h)

\* a running loop thread does not withhold its callbacks forever
SpecFair == Init /\ [][Next]_vars /\ WF_vars(CallbackDelivery)

(***************************************************************************)
(* Properties.                                                             *)
(***************************************************************************)
status == CONNECTION_STATUS.status

error == CONNECTION_STATUS.error

\* the step is a POST /publish that reached publish_message
PublishStep == last'.op = "publish" /\ last'.pm.called

\* C1: whenever status is not 'connected', publish_message returns
\* (False, "MQTT client not connected"), hands no publish to the library and
\* leaves CONNECTION_STATUS as it was.
C1_PublishNeedsConnectedStatus ==
    [][ (PublishStep /\ status # "connected")
            => /\ last'.pm.ok = FALSE
               /\ last'.pm.msg = NotConnectedMsg
               /\ last'.calls = <<>>
               /\ CONNECTION_STATUS' = CONNECTION_STATUS ]_vars

\* C2: when disconnect() returns, from whatever state it was called (with or
\* without a client object referenced), status is 'disconnected' and the
\* error is null, and so it stays when disconnect() is called again.  Stated
\* here for the calls that report success: the calls whose teardown raised
\* are left out, so that no violation rests on the library raising.
C2_DisconnectAlwaysDisconnects ==
    (last.op = "disconnect" /\ last.ret.success)
        => CONNECTION_STATUS = [status |-> "disconnected", error |-> None]

\* C3: status 'error' comes with a non-null error message, status
\* 'connected' with a null one.
C3_StatusErrorInvariant ==
    /\ status = "error" => error # None
    /\ status = "connected" => error = None

\* C4: no client object other than the one mqtt_client references is live.
C4_AtMostOneLiveHandle ==
    \A h \in 1..Len(clients) : Live(h) => h = mqtt_client

\* the step is a connect request that finds a certificate absent or unreadable
ConnectWithoutCertsStep ==
    /\ last'.op = "connect"
    /\ \E c \in CertTypes : last'.arg[c] # "ok"

\* C5: for every state of the three files, check_certificates lists exactly
\* the files that are absent or unreadable; and when a certificate file is
\* absent or unreadable, connect() returns failure, ends in status 'error' with a message that lists every such
\* file (marking the unreadable ones), constructs no client object and makes
\* no library call.
C5_MissingCertificatesStopConnect ==
    /\ \A files \in [CertTypes -> FileStates] :
           \A c \in CertTypes :
               files[c] # "ok"
                   <=> \E i \in DOMAIN check_certificates(files) :
                          check_certificates(files)[i].cert_type = c
    /\ [][ ConnectWithoutCertsStep
               => /\ last'.ret.success = FALSE
                  /\ last'.ret.status = "error"
                  /\ status' = "error"
                  /\ last'.ret.error = error'
                  /\ error'.text = "Missing or unreadable certificates: "
                  /\ \A c \in CertTypes :
                         last'.arg[c] # "ok"
                             <=> \E i \in DOMAIN error'.items :
                                    /\ error'.items[i].cert_type = c
                                    /\ error'.items[i].not_readable
                                           = (last'.arg[c] = "unreadable")
                  /\ last'.calls = <<>>
                  /\ UNCHANGED <<clients, mqtt_client>> ]_vars

\* a connect request found two certificates wrong while an earlier client
\* object was referenced and running
C5_Witness ==
    /\ last.op = "connect"
    /\ last.arg["client_key"] = "absent"
    /\ last.arg["client_cert"] = "unreadable"
    /\ last.arg["ca_cert"] = "ok"
    /\ status = "error"
    /\ Len(error.items) = 2
    /\ mqtt_client # 0
    /\ Live(mqtt_client)

\* the token occurs in s at position i
Occurs(s, i) ==
    /\ i + Len(TOKEN) - 1 <= Len(s)
    /\ SubSeq(s, i, i + Len(TOKEN) - 1) = TOKEN

\* s with the occurrence at position i replaced by c
ReplacedAt(s, i, c) ==
    SubSeq(s, 1, i - 1) \o c \o SubSeq(s, i + Len(TOKEN), Len(s))

\* the position of the leftmost occurrence of the token in s, 0 if none
FirstOccurrence(s) ==
    IF \E i \in 1..Len(s) : Occurs(s, i)
    THEN CHOOSE i \in 1..Len(s) :
             Occurs(s, i) /\ \A j \in 1..(i - 1) : ~Occurs(s, j)
    ELSE 0

\* s with its leftmost occurrence replaced by c, and so on in what follows it
RECURSIVE EveryOccurrenceReplaced(_, _)
EveryOccurrenceReplaced(s, c) ==
    LET i == FirstOccurrence(s)
    IN  IF i = 0 THEN s
        ELSE SubSeq(s, 1, i - 1) \o c
             \o EveryOccurrenceReplaced(SubSeq(s, i + Len(TOKEN), Len(s)), c)

\* the topics the last operation resolved: those of the publishes it handed to
\* the library, and the publish_topic of a /status response
ResolvedTopics ==
    { last.calls[i].topic :
          i \in { j \in DOMAIN last.calls : last.calls[j].fn = "publish" } }
    \cup (IF last.op = "status" /\ last.ret.publish_topic # NoneStr
          THEN {last.ret.publish_topic}
          ELSE {})

\* C6 as claimed: the resolved topic is the template when no client id is
\* set, and otherwise the template with exactly one occurrence of the token
\* replaced by the client id, whatever the number of occurrences.
C6_ExactlyOneOccurrenceReplaced ==
    \A t \in ResolvedTopics :
        IF active_client_id = NoneStr
        THEN t = base_topic
        ELSE \E i \in 1..Len(base_topic) :
                 /\ Occurs(base_topic, i)
                 /\ t = ReplacedAt(base_topic, i, active_client_id)

\* C6 as amended: the resolved topic is the template when no client id is
\* set, and otherwise the template with every occurrence of the token
\* replaced by the client id: none when the template has none, exactly one
\* when it has one.
C6_EveryOccurrenceReplaced ==
    \A t \in ResolvedTopics :
        IF active_client_id = NoneStr
        THEN t = base_topic
        ELSE t = EveryOccurrenceReplaced(base_topic, active_client_id)

\* a publish went out on "/t42/t42", resolved from a template of two tokens
C6_Witness ==
    /\ last.op = "publish"
    /\ active_client_id = <<"t", "4", "2">>
    /\ base_topic = <<"/">> \o TOKEN \o <<"/">> \o TOKEN
    /\ Len(last.calls) = 1
    /\ last.calls[1].topic = <<"/", "t", "4", "2", "/", "t", "4", "2">>

\* json.loads on the token text of json_dumps
JsonValue(toks) ==
    IF Len(toks) = 3 /\ toks[1] = "\"" /\ toks[3] = "\"" THEN JStr(toks[2])
    ELSE IF Len(toks) = 1 /\ \E n \in 0..9 : ToString(n) = toks[1]
    THEN JInt(CHOOSE n \in 0..9 : ToString(n) = toks[1])
    ELSE [t |-> "invalid"]

json_loads(toks) ==
    IF /\ Len(toks) >= 8
       /\ toks[1] = "{" /\ toks[2] = "\"" /\ toks[4] = "\"" /\ toks[5] = ":"
       /\ toks[6] = " " /\ toks[Len(toks)] = "}"
    THEN JObj(toks[3], JsonValue(SubSeq(toks, 7, Len(toks) - 1)))
    ELSE JsonValue(toks)

\* C7: a publish request made while status is 'connected' and a client
\* object is referenced hands the library exactly one publish, on that
\* object, with the JSON text of the payload, QoS 1 and the topic resolved
\* from the current active_client_id; it reports success when the library
\* returns the success code.
C7_PublishWhileConnected ==
    (/\ last.op = "publish"
     /\ last.arg.body = "obj"
     /\ status = "connected"
     /\ mqtt_client # 0)
        => /\ Len(last.calls) = 1
           /\ last.calls[1].fn = "publish"
           /\ last.calls[1].client = mqtt_client
           /\ json_loads(last.calls[1].body) = last.arg.payload
           /\ last.calls[1].qos = 1
           /\ last.calls[1].topic =
                  IF active_client_id = NoneStr THEN base_topic
                  ELSE EveryOccurrenceReplaced(base_topic, active_client_id)
           /\ (~last.calls[1].result.raise /\ last.calls[1].result.rc = 0)
                  => /\ last.ret = [success |-> TRUE, error |-> None]
                     /\ last.code = 200

\* {"a": 1} went out on "/t42/api" after set-client("t42"), with success
C7_Witness ==
    /\ last.op = "publish"
    /\ status = "connected"
    /\ base_topic = DefaultBaseTopic
    /\ active_client_id = <<"t", "4", "2">>
    /\ last.arg.body = "obj"
    /\ last.arg.payload = JObj("a", JInt(1))
    /\ Len(last.calls) = 1
    /\ last.calls[1].topic = <<"/", "t", "4", "2", "/", "a", "p", "i">>
    /\ last.calls[1].body = <<"{", "\"", "a", "\"", ":", " ", "1", "}">>
    /\ last.ret.success

\* the step takes status into 'connected'
BecomesConnected == status # "connected" /\ status' = "connected"

C9_OnDisconnectClearsError ==
    last.op = "on_disconnect"
        => CONNECTION_STATUS = [status |-> "disconnected", error |-> None]

\* C10: after on_connect with rc # 0, status is 'error', the error message
\* carries rc and mqtt_connected is false; a /status request that follows
\* reports connected false, status 'error' and that message.
C10_OnConnectRefused ==
    [][ /\ (last'.op = "on_connect" /\ last'.arg.rc # 0)
            => /\ status' = "error"
               /\ error'.text
                      = "Failed to connect to MQTT broker with result code "
               /\ error'.rc = last'.arg.rc
               /\ mqtt_connected' = FALSE
        /\ (last.op = "on_connect" /\ last.arg.rc # 0 /\ last'.op = "status")
            => /\ last'.ret.connected = FALSE
               /\ last'.ret.status = "error"
               /\ last'.ret.error = error
               /\ last'.ret.error.rc = last.arg.rc ]_vars

\* /status reports the refusal with code 5 and connected false
C10_Witness ==
    /\ last.op = "status"
    /\ last.ret.status = "error"
    /\ last.ret.error
           = [text |-> "Failed to connect to MQTT broker with result code ",
              rc |-> 5]
    /\ last.ret.connected = FALSE

\* C11: disconnect() called while no client object is referenced returns
\* success and changes nothing: CONNECTION_STATUS, mqtt_connected,
\* mqtt_client, active_client_id and the client objects are as before, and
\* no library call is made.
C11_DisconnectWithoutHandleIsNoOp ==
    [][ (last'.op = "disconnect" /\ mqtt_client = 0)
            => /\ last'.ret.success = TRUE
               /\ last'.code = 200
               /\ last'.calls = <<>>
               /\ UNCHANGED <<CONNECTION_STATUS, mqtt_connected, mqtt_client,
                              active_client_id, clients>> ]_vars

\* disconnect() has returned success with no client object referenced and
\* no library call, the status 'error' of a failed connect still standing
C11_Witness ==
    /\ last.op = "disconnect"
    /\ last.ret.success
    /\ last.calls = <<>>
    /\ mqtt_client = 0
    /\ status = "error"
    /\ last.ret.status = "error"

\* C12: active_client_id starts unset; a step changes it only if it is a
\* successful set-client request, which leaves it equal to the id of that
\* request (the last write wins); connect, disconnect, publish and the three
\* callbacks leave it as it was.
C12_ActiveClientIdOnlyBySetClient ==
    /\ active_client_id = NoneStr
    /\ [][ /\ (active_client_id' # active_client_id)
                => (last'.op = "set_client" /\ last'.code = 200)
           /\ (last'.op = "set_client" /\ last'.code = 200)
                => (active_client_id' = last'.arg.clientId)
           /\ (last'.op \in {"connect", "disconnect", "publish",
                              "on_connect", "on_disconnect", "on_publish"})
                => UNCHANGED active_client_id ]_vars

\* a second set-client request has replaced "t42" by the token text
C12_Witness ==
    /\ last.op = "set_client"
    /\ last.code = 200
    /\ last.arg.clientId = TOKEN
    /\ active_client_id = TOKEN
    /\ mqtt_client # 0

\* the step is a POST /publish whose publish the library refused: it
\* returned a code other than MQTT_ERR_SUCCESS, or raised
PublishRefusedStep ==
    /\ PublishStep
    /\ Len(last'.calls) = 1
    /\ \/ last'.calls[1].result.raise
       \/ last'.calls[1].result.rc # 0

\* C13: when the library's publish returns a code other than success, or
\* raises, the publish request returns failure with a message that carries
\* that code, or the exception's text; CONNECTION_STATUS (status 'connected',
\* error null), mqtt_connected, mqtt_client and the client objects are as
\* before, and neither loop_stop nor disconnect is called.
C13_PublishFailureKeepsConnection ==
    [][ PublishRefusedStep
            => /\ last'.ret.success = FALSE
               /\ last'.code = 200
               /\ last'.ret.error = last'.pm.msg
               /\ IF last'.calls[1].result.raise
                  THEN /\ last'.ret.error.text = "Error publishing message: "
                       /\ last'.ret.error.exc = last'.calls[1].result.exc
                  ELSE /\ last'.ret.error.text = "Failed to publish message: "
                       /\ last'.ret.error.rc = last'.calls[1].result.rc
               /\ last'.calls[1].fn = "publish"
               /\ UNCHANGED <<CONNECTION_STATUS, mqtt_connected, mqtt_client,
                              clients>>
               /\ (status = "connected" /\ error = None)
                      => /\ status' = "connected"
                         /\ error' = None
                         /\ mqtt_client' # 0 ]_vars

\* the library returned code 4 to a publish made while connected: the
\* request failed with that code, the connection stands
C13_Witness ==
    /\ last.op = "publish"
    /\ Len(last.calls) = 1
    /\ last.calls[1].result.rc = 4
    /\ last.ret.success = FALSE
    /\ last.ret.error.rc = 4
    /\ status = "connected"
    /\ error = None
    /\ mqtt_connected
    /\ mqtt_client # 0

\* the library call of the last operation that raised, "" if none did
Raised(calls) ==
    IF calls # <<>> /\ calls[Len(calls)].raised
    THEN calls[Len(calls)].fn
    ELSE ""

\* C14: when mqtt.Client, tls_set, connect or loop_start raises during
\* connect(), from whatever state, the request still answers: it returns
\* failure, status is 'error', the error message is non-null and carries the
\* exception's text, and mqtt_connected is false.
C14_ConnectExceptionIsReported ==
    (last.op = "connect" /\ Raised(last.calls) # "")
        => /\ Raised(last.calls) \in {"Client", "tls_set", "connect", "loop_start"}
           /\ last.code = 200
           /\ last.ret.success = FALSE
           /\ last.ret.status = "error"
           /\ status = "error"
           /\ error # None
           /\ error.text = "Failed to initialize MQTT client: "
           /\ error.exc = InitExcText(Raised(last.calls))
           /\ error.exc # ""
           /\ last.ret.error = error
           /\ mqtt_connected = FALSE

\* loop_start raised in a connect() made while an earlier connection was up
C14_Witness ==
    /\ last.op = "connect"
    /\ Raised(last.calls) = "loop_start"
    /\ Len(clients) = 2
    /\ Live(1)
    /\ status = "error"
    /\ error.exc = "can't start new thread"
    /\ ~mqtt_connected

\* the topic a publish would go out on
ResolvedTopic == get_publish_topic(base_topic, active_client_id)

\* C15: a set-client request whose body has no clientId, or an empty one, is
\* answered 400 'Client ID is required' and leaves active_client_id and the
\* resolved topic as they were; a request with a non-empty clientId sets
\* active_client_id to exactly that value and reports it back.
C15_SetClientValidation ==
    [][ last'.op = "set_client"
            => IF \/ last'.arg.body # "obj"
                  \/ last'.arg.clientId = <<>>
                  \/ last'.arg.clientId = NoneStr
               THEN /\ last'.code = 400
                    /\ last'.ret = [success |-> FALSE,
                                    error |-> [text |-> "Client ID is required"]]
                    /\ UNCHANGED active_client_id
                    /\ ResolvedTopic' = ResolvedTopic
               ELSE /\ last'.code = 200
                    /\ active_client_id' = last'.arg.clientId
                    /\ last'.ret = [success |-> TRUE,
                                    active_client_id |-> last'.arg.clientId] ]_vars

\* {"clientId": ""} was answered 400 with "t42" still the active id
C15_Witness ==
    /\ last.op = "set_client"
    /\ last.arg.body = "obj"
    /\ last.arg.clientId = <<>>
    /\ last.code = 400
    /\ active_client_id = <<"t", "4", "2">>

\* C16: every on_connect with rc = 0 calls publish_message once, with the
\* payload "Connected", after mqtt_connected and the status are set: if a
\* client object is referenced, exactly one publish is handed to the library,
\* on the topic resolved from the current active_client_id; whatever that
\* publish returns (no client object, a code other than success, an
\* exception), status is 'connected' and the error null afterwards.
C16_OnConnectAnnounces ==
    (last.op = "on_connect" /\ last.arg.rc = 0)
        => /\ last.pm.called
           /\ status = "connected"
           /\ error = None
           /\ mqtt_connected
           /\ IF mqtt_client # 0
              THEN /\ Len(last.calls) = 1
                   /\ last.calls[1].fn = "publish"
                   /\ last.calls[1].client = mqtt_client
                   /\ last.calls[1].body = <<"\"", "Connected", "\"">>
                   /\ last.calls[1].topic = ResolvedTopic
                   /\ last.pm.ok = (/\ ~last.calls[1].result.raise
                                    /\ last.calls[1].result.rc = 0)
              ELSE /\ last.calls = <<>>
                   /\ last.pm.ok = FALSE
                   /\ last.pm.msg = NotConnectedMsg

\* the library raised in the publish of "Connected": the status is
\* 'connected' all the same
C16_Witness ==
    /\ last.op = "on_connect"
    /\ last.arg.rc = 0
    /\ Len(last.calls) = 1
    /\ last.calls[1].result.raise
    /\ last.pm.ok = FALSE
    /\ last.pm.msg = PublishExcMsg("Invalid topic.")
    /\ status = "connected"
    /\ error = None

\* the publish of "Connected" was not attempted on the library for want of
\* a referenced client object
C16_NoHandleReached ==
    /\ last.op = "on_connect"
    /\ last.arg.rc = 0
    /\ mqtt_client = 0
    /\ last.pm.msg = NotConnectedMsg

\* C18: mqtt_connected is true exactly when status is 'connected', after
\* every operation; a connect() made while connected does not leave the
\* flag true with status 'connecting' or 'error'.
C18_FlagIffStatusConnected ==
    mqtt_connected <=> (status = "connected")

\* C19: status 'connected' implies a client object is referenced, also
\* after the callbacks of a client object that a later connect() replaced.
C19_ConnectedImpliesHandle ==
    status = "connected" => mqtt_client # 0

\* the step is the try block of a publish request that had passed the gate
PublishUseStep == publishing # Idle /\ publishing' = Idle

\* C17: when disconnect() or on_disconnect runs between the gate of
\* publish_message and its use of mqtt_client, the publish request still
\* answers with a (success, message) pair, no exception escaping; if
\* mqtt_client was set to None after the gate, the pair reports failure.
C17_PublishRacingDisconnect ==
    [][ PublishUseStep
            => /\ last'.op = "publish"
               /\ last'.code = 200
               /\ last'.pm.called
               /\ last'.pm.ok \in BOOLEAN
               /\ last'.ret = [success |-> last'.pm.ok, error |-> last'.pm.msg]
               /\ last'.pm.ok => last'.pm.msg = None
               /\ mqtt_client = 0
                      => /\ last'.pm.ok = FALSE
                         /\ last'.pm.msg # None
                         /\ last'.calls = <<>>
               /\ UNCHANGED <<CONNECTION_STATUS, mqtt_client,
                              mqtt_connected>> ]_vars

\* a publish request that had passed the gate found mqtt_client None and
\* answered with the failure built from the AttributeError
C17_Witness ==
    /\ last.op = "publish"
    /\ last.pm.called
    /\ last.pm.ok = FALSE
    /\ last.pm.msg = PublishExcMsg(NoHandleExc)
    /\ last.code = 200
    /\ mqtt_client = 0
    /\ status = "disconnected"

\* a publish request that had passed the gate ran its try block after
\* on_disconnect had cleared the flag, on the object still referenced
C17_FlagClearedReached ==
    /\ last.op = "publish"
    /\ Len(last.calls) = 1
    /\ ~mqtt_connected
    /\ status = "disconnected"
    /\ mqtt_client # 0

\* C20: once connect() has passed the certificate check and started the
\* network connect, status does not stay 'connecting' forever, the loop
\* thread delivering its callbacks: it becomes 'connected', 'error' or
\* 'disconnected'.
C20_ConnectingEnds ==
    (last.op = "connect" /\ last.ret.success /\ status = "connecting")
        ~> (status \in {"connected", "error", "disconnected"})

=============================================================================
